---- MODULE Spec2Model ----
(***************************************************************************)
(* A model of the feature-flagged FastAPI service scaffold: the Settings   *)
(* model and its validators, the feature gate, the application factory,    *)
(* the request handlers of the health, items and OCR routers, and the      *)
(* start-up / shut-down hooks of the optional services.                    *)
(*                                                                         *)
(* Strings that the code only stores or compares are TLA+ strings.         *)
(* Strings that the code takes apart (CORS_ORIGINS) are sequences of       *)
(* one-character strings.  A response "detail" is the sequence of the      *)
(* words of the message.  Python's None is the value None below.           *)
(***************************************************************************)
EXTENDS Integers, Sequences, FiniteSets, TLC

VARIABLES
    environ,              \* the process environment (os.environ / .env), raw strings
    phase,                \* where the process is in its life
    built,                \* the last Settings(**kwargs) call and its outcome
    settings,             \* the Settings object create_app closed over
    app,                  \* the FastAPI application being served
    settings_cache,       \* lru_cache of dependencies.get_settings
    response,             \* the last HTTP response sent
    gate,                 \* the last direct call of the feature gate
    _items_storage,       \* routers/items.py module global
    _next_id,             \* routers/items.py module global
    _postgres_pool,       \* services/db_postgres.py module global
    _mongo_client,        \* services/db_mongo.py module global
    _mongo_db,            \* services/db_mongo.py module global
    _storage_initialized, \* services/storage.py module global
    lifecycle,            \* per capability, the last lifecycle call (init / close) made
    call,                 \* the last direct call of a service function and its outcome
    fs                    \* the file system below the working directory

vars == <<environ, phase, built, settings, app, settings_cache, response, gate,
          _items_storage, _next_id, _postgres_pool, _mongo_client, _mongo_db,
          _storage_initialized, lifecycle, call, fs>>

-----------------------------------------------------------------------------
(* Values *)

None == "<None>"

HTTP_201_CREATED == 201
HTTP_204_NO_CONTENT == 204
HTTP_404_NOT_FOUND == 404

\* Bounds of the model.
MaxLen == 4       \* longest CORS_ORIGINS string supplied
MaxItems == 2     \* most items ever created in the in-memory store

-----------------------------------------------------------------------------
(* settings.py: the Settings model *)

BoolFields == {"DEBUG", "CORS_ALLOW_CREDENTIALS", "ENABLE_DB_POSTGRES",
               "ENABLE_DB_MONGO", "ENABLE_OCR", "ENABLE_STORAGE"}

FeatureFlags == {"ENABLE_DB_POSTGRES", "ENABLE_DB_MONGO", "ENABLE_OCR", "ENABLE_STORAGE"}

IntFields == {"PORT", "POSTGRES_PORT", "MONGO_PORT"}

ListFields == {"CORS_ORIGINS"}

\* The class attributes of Settings with their defaults.
Defaults ==
    [APP_NAME            |-> "FastAPI Template",
     APP_VERSION         |-> "1.0.0",
     ENVIRONMENT         |-> "development",
     DEBUG               |-> FALSE,
     API_V1_PREFIX       |-> "/api/v1",
     PORT                |-> 8000,
     CORS_ORIGINS        |-> [type |-> "list",
                              val |-> <<"http://localhost:3000", "http://localhost:8080">>],
     CORS_ALLOW_CREDENTIALS |-> TRUE,
     ENABLE_DB_POSTGRES  |-> FALSE,
     ENABLE_DB_MONGO     |-> FALSE,
     ENABLE_OCR          |-> FALSE,
     ENABLE_STORAGE      |-> FALSE,
     POSTGRES_HOST       |-> "localhost",
     POSTGRES_PORT       |-> 5432,
     POSTGRES_USER       |-> "postgres",
     POSTGRES_PASSWORD   |-> None,
     POSTGRES_DB         |-> "fastapi_db",
     POSTGRES_URL        |-> None,
     MONGO_HOST          |-> "localhost",
     MONGO_PORT          |-> 27017,
     MONGO_USER          |-> None,
     MONGO_PASSWORD      |-> None,
     MONGO_DB            |-> "fastapi_db",
     MONGO_URL           |-> None,
     OCR_PROVIDER        |-> "tesseract",
     STORAGE_TYPE        |-> "local",
     STORAGE_PATH        |-> "./storage",
     AWS_S3_BUCKET       |-> None,
     LOG_LEVEL           |-> "INFO"]

Fields == DOMAIN Defaults

\* pydantic's reading of a boolean environment variable.
EnvTrue == {"1", "on", "t", "true", "y", "yes"}

FromEnv(field, raw) ==
    IF field \in BoolFields THEN raw \in EnvTrue ELSE raw

\* BaseSettings: an init keyword wins over the environment, which wins over
\* the class default.
FieldSource(kwargs, env, field) ==
    IF field \in DOMAIN kwargs THEN kwargs[field]
    ELSE IF field \in DOMAIN env THEN FromEnv(field, env[field])
    ELSE Defaults[field]

Ok(v) == [ok |-> TRUE, value |-> v]
ValueError(msg) == [ok |-> FALSE, exc |-> "ValueError", error |-> msg]

-----------------------------------------------------------------------------
(* str.split(",") and str.strip() on sequences of characters *)

Whitespace == {" "}

RECURSIVE LStrip(_)
LStrip(s) ==
    IF Len(s) > 0 /\ s[1] \in Whitespace THEN LStrip(Tail(s)) ELSE s

RECURSIVE RStrip(_)
RStrip(s) ==
    IF Len(s) > 0 /\ s[Len(s)] \in Whitespace THEN RStrip(SubSeq(s, 1, Len(s) - 1)) ELSE s

Strip(s) == RStrip(LStrip(s))

RECURSIVE Split(_, _)
Split(s, sep) ==
    LET at == {i \in 1..Len(s) : s[i] = sep} IN
    IF at = {} THEN <<s>>
    ELSE LET i == CHOOSE j \in at : \A k \in at : j <= k IN
         <<SubSeq(s, 1, i - 1)>> \o Split(SubSeq(s, i + 1, Len(s)), sep)

-----------------------------------------------------------------------------
(* settings.py: the validators *)

allowed == {"development", "staging", "production"}

validate_environment_accepts_test(v) ==
    IF v \notin (allowed \cup {"test"})
    THEN ValueError("ENVIRONMENT must be one of allowed")
    ELSE Ok(v)

validate_environment(v) ==
    IF v \notin allowed
    THEN ValueError("ENVIRONMENT must be one of allowed")
    ELSE Ok(v)

validate_debug_never_raises(v, values) == Ok(v)

\* values holds the fields validated before DEBUG; ENVIRONMENT is in it only
\* when its own validator passed.
validate_debug_in_production(v, values) ==
    IF "ENVIRONMENT" \in DOMAIN values /\ values["ENVIRONMENT"] = "production" /\ v = TRUE
    THEN ValueError("DEBUG must be False when ENVIRONMENT=production")
    ELSE Ok(v)

\* A CORS_ORIGINS input is tagged with its Python type.
parse_cors_origins(v) ==
    IF v.type = "str"
    THEN LET parts == Split(v.val, ",") IN
         [type |-> "list", val |-> [i \in 1..Len(parts) |-> Strip(parts[i])]]
    ELSE v

\* Settings(**kwargs): every field is read from its source and validated in
\* declaration order; any validator error fails the construction as a whole.
BuildSettings(kwargs, env) ==
    LET raw    == [f \in Fields |-> FieldSource(kwargs, env, f)]
        envRes == validate_environment(raw.ENVIRONMENT)
        values == IF envRes.ok THEN [f \in {"ENVIRONMENT"} |-> envRes.value] ELSE <<>>
        dbgRes == validate_debug_in_production(raw.DEBUG, values)
        cors   == parse_cors_origins(raw.CORS_ORIGINS)
        errors == (IF envRes.ok THEN {} ELSE {"ENVIRONMENT"})
                  \cup (IF dbgRes.ok THEN {} ELSE {"DEBUG"})
    IN  IF errors = {}
        THEN [ok |-> TRUE,
              value |-> [raw EXCEPT !.ENVIRONMENT = envRes.value,
                                    !.DEBUG = dbgRes.value,
                                    !.CORS_ORIGINS = cors]]
        ELSE [ok |-> FALSE, error |-> "ValidationError", fields |-> errors]

is_production(s) == s.ENVIRONMENT = "production"

is_development(s) == s.ENVIRONMENT = "development"

-----------------------------------------------------------------------------
(* Python objects tagged with their type *)

NoneObj == [type |-> "NoneType"]

SettingsObj(s) == [type |-> "Settings", val |-> s]

-----------------------------------------------------------------------------
(* decorators.py: the feature gate *)

Properties == {"is_production", "is_development"}

HasAttr(s, name) == name \in DOMAIN s \/ name \in Properties

GetAttr(s, name) ==
    IF name = "is_production" THEN is_production(s)
    ELSE IF name = "is_development" THEN is_development(s)
    ELSE s[name]

\* Python truth value of an attribute of Settings.
Truthy(name, v) ==
    IF name \in BoolFields \cup Properties THEN v
    ELSE IF name \in IntFields THEN v # 0
    ELSE IF name \in ListFields THEN Len(v.val) > 0
    ELSE v # None /\ v # ""

\* not getattr(settings, feature_flag, False)
NotGetattr(s, feature_flag) ==
    IF HasAttr(s, feature_flag) THEN ~Truthy(feature_flag, GetAttr(s, feature_flag)) ELSE TRUE

HTTPException(status_code, detail) ==
    [raised |-> TRUE, exc |-> "HTTPException", status_code |-> status_code, detail |-> detail]

Raise(exc) == [raised |-> TRUE, exc |-> exc]

Return(v) == [raised |-> FALSE, value |-> v]

\* f"Feature '{feature_flag}' is not enabled"
NotEnabledDetail(feature_flag) ==
    <<"Feature", "'", feature_flag, "'", "is", "not", "enabled">>

feature_guard_needs_storage(s, feature_flag) ==
    IF NotGetattr(s, feature_flag) \/ NotGetattr(s, "ENABLE_STORAGE")
    THEN HTTPException(HTTP_404_NOT_FOUND, NotEnabledDetail(feature_flag))
    ELSE Return(None)

feature_guard(s, feature_flag) ==
    IF NotGetattr(s, feature_flag)
    THEN HTTPException(HTTP_404_NOT_FOUND, NotEnabledDetail(feature_flag))
    ELSE Return(None)

\* require_feature(feature_flag)(func)(*args, **kwargs).  args is a sequence
\* of values tagged with their type; kwargs maps keyword names to values.
\* The wrapper looks for a Settings in kwargs["settings"], then in args, and
\* otherwise constructs Settings() from the environment.
require_feature(feature_flag, args, kwargs, env) ==
    LET inArgs == {i \in 1..Len(args) : args[i].type = "Settings"}
        found  == IF "settings" \in DOMAIN kwargs THEN kwargs["settings"]
                  ELSE IF inArgs # {}
                       THEN args[CHOOSE i \in inArgs : \A j \in inArgs : i <= j]
                       ELSE NoneObj
        fresh  == BuildSettings(<<>>, env)
    IN  IF found.type # "Settings" /\ ~fresh.ok THEN Raise("ValidationError")
        ELSE LET s == IF found.type = "Settings" THEN found.val ELSE fresh.value IN
             IF NotGetattr(s, feature_flag)
             THEN HTTPException(HTTP_404_NOT_FOUND, NotEnabledDetail(feature_flag))
             ELSE Return("func")

-----------------------------------------------------------------------------
(* dependencies.py *)

\* get_settings() under lru_cache: the first successful Settings() is kept.
get_settings(cache, env) ==
    IF cache.type = "Settings" THEN [res |-> Return(cache.val), cache |-> cache]
    ELSE LET fresh == BuildSettings(<<>>, env) IN
         IF fresh.ok
         THEN [res |-> Return(fresh.value), cache |-> SettingsObj(fresh.value)]
         ELSE [res |-> Raise("ValidationError"), cache |-> cache]

-----------------------------------------------------------------------------
(* services: provider dispatch and connector initialisation *)

Str(v) == IF v = None THEN "None" ELSE v

Falsy(v) == v = None \/ v = ""

postgres_url(s) ==
    "postgresql://" \o Str(s.POSTGRES_USER) \o ":" \o Str(s.POSTGRES_PASSWORD)
    \o "@" \o Str(s.POSTGRES_HOST) \o ":" \o ToString(s.POSTGRES_PORT)
    \o "/" \o Str(s.POSTGRES_DB)

\* An init that composes the URL whether or not one was supplied.
init_postgres_db_always_composes(s) == [s EXCEPT !.POSTGRES_URL = postgres_url(s)]

\* init_postgres_db composes POSTGRES_URL when it is not set; the connection
\* pool itself is left as it was (the pool creation is commented out).
init_postgres_db(s) ==
    IF Falsy(s.POSTGRES_URL) THEN [s EXCEPT !.POSTGRES_URL = postgres_url(s)] ELSE s

mongo_url(s) ==
    IF ~Falsy(s.MONGO_USER) /\ ~Falsy(s.MONGO_PASSWORD)
    THEN "mongodb://" \o Str(s.MONGO_USER) \o ":" \o Str(s.MONGO_PASSWORD)
         \o "@" \o Str(s.MONGO_HOST) \o ":" \o ToString(s.MONGO_PORT)
         \o "/" \o Str(s.MONGO_DB)
    ELSE "mongodb://" \o Str(s.MONGO_HOST) \o ":" \o ToString(s.MONGO_PORT)
         \o "/" \o Str(s.MONGO_DB)

init_mongo_db(s) ==
    IF Falsy(s.MONGO_URL) THEN [s EXCEPT !.MONGO_URL = mongo_url(s)] ELSE s

_process_tesseract ==
    [text |-> "Placeholder OCR text - implement actual OCR processing",
     confidence |-> "0.95", provider |-> "tesseract"]

_process_google_vision ==
    [text |-> "Placeholder OCR text - implement actual Google Vision processing",
     confidence |-> "0.98", provider |-> "google_vision"]

_process_aws_textract ==
    [text |-> "Placeholder OCR text - implement actual AWS Textract processing",
     confidence |-> "0.97", provider |-> "aws_textract"]

process_image_ocr(s) ==
    LET provider == IF Falsy(s.OCR_PROVIDER) THEN "tesseract" ELSE s.OCR_PROVIDER IN
    IF provider = "tesseract" THEN Ok(_process_tesseract)
    ELSE IF provider = "google_vision" THEN Ok(_process_google_vision)
    ELSE IF provider = "aws_textract" THEN Ok(_process_aws_textract)
    ELSE ValueError(<<"Unknown", "OCR", "provider:", provider>>)

-----------------------------------------------------------------------------
(* services/db_postgres.py and services/db_mongo.py: close and accessor *)

RuntimeError(message) == [raised |-> TRUE, exc |-> "RuntimeError", message |-> message]

\* close_postgres_db: a pool that is set is dropped; nothing is raised.
close_postgres_db(pool) ==
    [raised |-> FALSE, pool |-> IF pool # None THEN None ELSE pool]

get_postgres_pool(pool) ==
    IF pool = None
    THEN RuntimeError(<<"PostgreSQL", "connection", "not", "initialized">>)
    ELSE Return(pool)

\* A close that uses the client without looking whether it is set.
close_mongo_db_unguarded(client, db) ==
    [raised |-> client = None, client |-> None, db |-> None]

\* close_mongo_db: both handles are dropped when the client is set.
close_mongo_db(client, db) ==
    [raised |-> FALSE,
     client |-> IF client # None THEN None ELSE client,
     db     |-> IF client # None THEN None ELSE db]

get_mongo_db(db) ==
    IF db = None
    THEN RuntimeError(<<"MongoDB", "connection", "not", "initialized">>)
    ELSE Return(db)

-----------------------------------------------------------------------------
(* The file system: a path is the sequence of its components below the      *)
(* working directory; dirs is the set of directories, files maps the path   *)
(* of every regular file to its bytes                                       *)

EmptyFs == [dirs |-> {}, files |-> <<>>]

OSError(name) == [ok |-> FALSE, exc |-> "OSError", error |-> <<name>>]

Prefixes(path) == {SubSeq(path, 1, n) : n \in 1..Len(path)}

dirname(path) == SubSeq(path, 1, Len(path) - 1)

\* os.makedirs(path, exist_ok=True): every missing directory on the way is
\* created; a component that is a regular file fails the call before
\* anything is created.
makedirs(disk, path) ==
    IF path \in DOMAIN disk.files THEN OSError("FileExistsError")
    ELSE IF \E p \in Prefixes(path) : p \in DOMAIN disk.files
    THEN OSError("NotADirectoryError")
    ELSE [ok |-> TRUE, fs |-> [disk EXCEPT !.dirs = @ \cup Prefixes(path)]]

\* with open(path, "wb") as f: f.write(data)
open_wb_write(disk, path, data) ==
    IF path \in disk.dirs THEN OSError("IsADirectoryError")
    ELSE IF Len(path) > 1 /\ dirname(path) \notin disk.dirs
    THEN OSError("FileNotFoundError")
    ELSE [ok |-> TRUE, fs |-> [disk EXCEPT !.files = (path :> data) @@ @]]

\* with open(path, "rb") as f: f.read()
read_file(disk, path) ==
    IF path \in DOMAIN disk.files THEN Ok(disk.files[path]) ELSE OSError("FileNotFoundError")

-----------------------------------------------------------------------------
(* services/storage.py: saving a file *)

\* settings.STORAGE_PATH or "./storage": the storage root is one directory
\* below the working directory.
storage_root(s) == <<IF Falsy(s.STORAGE_PATH) THEN "./storage" ELSE s.STORAGE_PATH>>

\* _init_local_storage: os.makedirs(storage_path, exist_ok=True)
_init_local_storage(s, disk) == makedirs(disk, storage_root(s))

\* os.path.join(storage_path, file_path) for a relative file_path
full_path(s, file_path) == storage_root(s) \o file_path

\* A save that opens the file without creating its directory first.
_save_local_file_without_makedirs(file_data, file_path, s, disk) ==
    LET written == open_wb_write(disk, full_path(s, file_path), file_data) IN
    IF ~written.ok
    THEN [ok |-> FALSE, exc |-> written.exc, error |-> written.error, fs |-> disk]
    ELSE [ok |-> TRUE, value |-> [scheme |-> "file", path |-> full_path(s, file_path)],
          fs |-> written.fs]

_save_local_file(file_data, file_path, s, disk) ==
    LET made == makedirs(disk, dirname(full_path(s, file_path))) IN
    IF ~made.ok THEN [ok |-> FALSE, exc |-> made.exc, error |-> made.error, fs |-> disk]
    ELSE LET written == open_wb_write(made.fs, full_path(s, file_path), file_data) IN
         IF ~written.ok
         THEN [ok |-> FALSE, exc |-> written.exc, error |-> written.error, fs |-> made.fs]
         ELSE [ok |-> TRUE, value |-> [scheme |-> "file", path |-> full_path(s, file_path)],
               fs |-> written.fs]

\* f"s3://{settings.AWS_S3_BUCKET}/{file_path}"
_save_s3_file(file_data, file_path, s, disk) ==
    [ok |-> TRUE,
     value |-> [scheme |-> "s3", bucket |-> Str(s.AWS_S3_BUCKET), key |-> file_path],
     fs |-> disk]

\* f"gs://bucket/{file_path}"
_save_gcs_file(file_data, file_path, s, disk) ==
    [ok |-> TRUE, value |-> [scheme |-> "gs", bucket |-> "bucket", key |-> file_path],
     fs |-> disk]

save_file(file_data, file_path, s, disk) ==
    LET storage_type == IF Falsy(s.STORAGE_TYPE) THEN "local" ELSE s.STORAGE_TYPE IN
    IF storage_type = "local" THEN _save_local_file(file_data, file_path, s, disk)
    ELSE IF storage_type = "s3" THEN _save_s3_file(file_data, file_path, s, disk)
    ELSE IF storage_type = "gcs" THEN _save_gcs_file(file_data, file_path, s, disk)
    ELSE [ok |-> FALSE, exc |-> "ValueError",
          error |-> <<"Unknown", "storage", "type:", storage_type>>, fs |-> disk]

_init_s3_storage(s) ==
    IF Falsy(s.AWS_S3_BUCKET)
    THEN ValueError(<<"AWS_S3_BUCKET", "must", "be", "set", "for", "S3", "storage">>)
    ELSE Ok(None)

\* _init_gcs_storage only logs.
_init_gcs_storage(s) == Ok(None)

\* The outcome of init_storage_service and the file system it leaves; on ok
\* the caller sets _storage_initialized.
init_storage_service(s, disk) ==
    LET storage_type == IF Falsy(s.STORAGE_TYPE) THEN "local" ELSE s.STORAGE_TYPE IN
    IF storage_type = "local"
    THEN LET made == _init_local_storage(s, disk) IN
         IF made.ok THEN [ok |-> TRUE, fs |-> made.fs]
         ELSE [ok |-> FALSE, exc |-> made.exc, error |-> made.error, fs |-> disk]
    ELSE IF storage_type = "s3"
    THEN LET checked == _init_s3_storage(s) IN
         IF checked.ok THEN [ok |-> TRUE, fs |-> disk]
         ELSE [ok |-> FALSE, exc |-> checked.exc, error |-> checked.error, fs |-> disk]
    ELSE IF storage_type = "gcs"
    THEN [ok |-> _init_gcs_storage(s).ok, fs |-> disk]
    ELSE [ok |-> FALSE, exc |-> "ValueError",
          error |-> <<"Unknown", "storage", "type:", storage_type>>, fs |-> disk]

-----------------------------------------------------------------------------
(* The capabilities with a backing service and their lifecycle calls *)

Capabilities == {"postgres", "mongo", "storage"}

NoLifecycle == [c \in Capabilities |-> "none"]

-----------------------------------------------------------------------------
(* routers and main.py: the application factory *)

Route(method, path) == [method |-> method, path |-> path]

health_router == {Route("GET", "/health")}

items_router == {Route("GET", "/items"), Route("GET", "/items/{item_id}"),
                 Route("POST", "/items"), Route("PUT", "/items/{item_id}"),
                 Route("DELETE", "/items/{item_id}")}

ocr_router == {Route("POST", "/ocr/process"), Route("GET", "/ocr/status")}

include_router(router, prefix) == {Route(r.method, prefix \o r.path) : r \in router}

_configure_cors(s) ==
    IF is_production(s) THEN s.CORS_ORIGINS.val
    ELSE IF Len(s.CORS_ORIGINS.val) > 0 THEN s.CORS_ORIGINS.val ELSE <<"*">>

\* The routes create_app mounts for the settings s.
mounted_routes_items_need_postgres(s) ==
    include_router(health_router, s.API_V1_PREFIX)
    \cup (IF s.ENABLE_DB_POSTGRES THEN include_router(items_router, s.API_V1_PREFIX) ELSE {})
    \cup (IF s.ENABLE_OCR THEN include_router(ocr_router, s.API_V1_PREFIX) ELSE {})

mounted_routes(s) ==
    include_router(health_router, s.API_V1_PREFIX)
    \cup include_router(items_router, s.API_V1_PREFIX)
    \cup (IF s.ENABLE_OCR THEN include_router(ocr_router, s.API_V1_PREFIX) ELSE {})

\* The start-up and shut-down hooks _init_postgres, _init_mongo and
\* _init_storage register, in registration order.
on_startup(s) ==
    (IF s.ENABLE_DB_POSTGRES THEN <<"startup_postgres">> ELSE <<>>)
    \o (IF s.ENABLE_DB_MONGO THEN <<"startup_mongo">> ELSE <<>>)
    \o (IF s.ENABLE_STORAGE THEN <<"startup_storage">> ELSE <<>>)

on_shutdown(s) ==
    (IF s.ENABLE_DB_POSTGRES THEN <<"shutdown_postgres">> ELSE <<>>)
    \o (IF s.ENABLE_DB_MONGO THEN <<"shutdown_mongo">> ELSE <<>>)

FastAPI(s) ==
    [title         |-> s.APP_NAME,
     version       |-> s.APP_VERSION,
     debug         |-> s.DEBUG,
     docs_url      |-> IF ~is_production(s) THEN "/docs" ELSE None,
     redoc_url     |-> IF ~is_production(s) THEN "/redoc" ELSE None,
     allow_origins |-> _configure_cors(s),
     routes        |-> mounted_routes(s),
     on_startup    |-> on_startup(s),
     on_shutdown   |-> on_shutdown(s)]

\* create_app(settings): with no argument the settings are Settings().
create_app(arg, env) ==
    LET fresh == IF arg.type = "Settings" THEN Ok(arg.val) ELSE BuildSettings(<<>>, env) IN
    IF fresh.ok
    THEN [ok |-> TRUE, settings |-> fresh.value, app |-> FastAPI(fresh.value)]
    ELSE [ok |-> FALSE, error |-> "ValidationError"]

NoApp == [routes |-> {}, on_startup |-> <<>>, on_shutdown |-> <<>>]

Has(seq, x) == \E i \in 1..Len(seq) : seq[i] = x

-----------------------------------------------------------------------------
(* HTTP responses *)

NoCall == [fn |-> "none"]

NoResponse == [status_code |-> 0]

Response(method, path, status_code, body) ==
    [method |-> method, path |-> path, status_code |-> status_code, body |-> body]

DetailBody(words) == [kind |-> "detail", detail |-> words]

\* The framework's answer for a path no route matches.
NotFoundBody == DetailBody(<<"Not", "Found">>)

\* The framework's answer when a dependency or a handler raises anything
\* other than HTTPException.
InternalServerError(method, path) ==
    Response(method, path, 500, [kind |-> "text", text |-> "Internal Server Error"])

\* The path a client requests: the tests use the default prefix.
ClientPath(path) == "/api/v1" \o path

IsMounted(method, path) == Route(method, ClientPath(path)) \in app.routes

-----------------------------------------------------------------------------
(* routers/health.py and routers/ocr.py: the handlers *)

\* health_check builds its own Settings() from the environment.
health_check(env) ==
    LET fresh == BuildSettings(<<>>, env) IN
    IF ~fresh.ok THEN InternalServerError("GET", "/health")
    ELSE Response("GET", "/health", 200,
                  [kind |-> "health", status |-> "ok",
                   version |-> fresh.value.APP_VERSION,
                   environment |-> fresh.value.ENVIRONMENT])

\* ocr_status(settings = Depends(get_settings)); dep is get_settings' outcome.
ocr_status(dep) ==
    IF dep.raised THEN InternalServerError("GET", "/ocr/status")
    ELSE LET guard == feature_guard(dep.value, "ENABLE_OCR") IN
         IF guard.raised
         THEN Response("GET", "/ocr/status", guard.status_code, DetailBody(guard.detail))
         ELSE Response("GET", "/ocr/status", 200,
                       [kind |-> "ocr_status", enabled |-> TRUE,
                        provider |-> dep.value.OCR_PROVIDER, status |-> "ready"])

\* process_ocr(file = File(...), settings = Depends(get_settings)); a request
\* without the required file part is rejected by the framework before the
\* handler body runs.
process_ocr(dep, has_file) ==
    IF dep.raised THEN InternalServerError("POST", "/ocr/process")
    ELSE IF ~has_file
    THEN Response("POST", "/ocr/process", 422, [kind |-> "validation"])
    ELSE LET guard == feature_guard(dep.value, "ENABLE_OCR") IN
         IF guard.raised
         THEN Response("POST", "/ocr/process", guard.status_code, DetailBody(guard.detail))
         ELSE LET result == process_image_ocr(dep.value) IN
              IF result.ok
              THEN Response("POST", "/ocr/process", 200,
                            [kind |-> "ocr", result |-> result.value])
              ELSE InternalServerError("POST", "/ocr/process")

-----------------------------------------------------------------------------
(* routers/items.py: the handlers *)

ItemNotFound == HTTPException(HTTP_404_NOT_FOUND, <<"Item", "not", "found">>)

\* list(_items_storage.values()): a dict keeps insertion order, and items
\* are inserted in increasing id order.
RECURSIVE Values(_, _)
Values(storage, ids) ==
    IF ids = {} THEN <<>>
    ELSE LET i == CHOOSE j \in ids : \A k \in ids : j <= k IN
         <<storage[i]>> \o Values(storage, ids \ {i})

list_items(storage) ==
    Response("GET", "/items", 200,
             [kind |-> "items", items |-> Values(storage, DOMAIN storage)])

\* A get that answers 200 with nothing for an id that is not stored.
get_item_without_check(storage, item_id) ==
    Response("GET", "/items/{item_id}", 200,
             [kind |-> "item",
              item |-> IF item_id \in DOMAIN storage THEN storage[item_id] ELSE None])

get_item(storage, item_id) ==
    IF item_id \notin DOMAIN storage
    THEN Response("GET", "/items/{item_id}", ItemNotFound.status_code,
                  DetailBody(ItemNotFound.detail))
    ELSE Response("GET", "/items/{item_id}", 200,
                  [kind |-> "item", item |-> storage[item_id]])

new_item(next_id, item, now) ==
    [id |-> next_id, name |-> item.name, description |-> item.description,
     price |-> item.price, created_at |-> now]

\* A create that numbers the new item by the size of the store.
create_item_numbers_by_size(storage, next_id, item, now) ==
    LET id == Cardinality(DOMAIN storage) + 1 IN
    [storage |-> (id :> new_item(id, item, now)) @@ storage,
     next_id |-> next_id,
     item    |-> new_item(id, item, now)]

\* create_item: the new item takes _next_id as its id and its key, and the
\* counter moves on.  The handler is a coroutine without an await in its
\* body, so the event loop runs it as one step.
create_item(storage, next_id, item, now) ==
    [storage |-> (next_id :> new_item(next_id, item, now)) @@ storage,
     next_id |-> next_id + 1,
     item    |-> new_item(next_id, item, now)]

\* ItemUpdate: item_update maps the fields the request supplied (those that
\* are not None) to their values; a field that is None is left as it is.
\* An update that replaces the item's fields: a field the request does not
\* supply is reset.
updated_item_replaces(existing_item, item_update) ==
    [existing_item EXCEPT
        !.name = IF "name" \in DOMAIN item_update THEN item_update["name"] ELSE @,
        !.description = IF "description" \in DOMAIN item_update
                        THEN item_update["description"] ELSE None,
        !.price = IF "price" \in DOMAIN item_update THEN item_update["price"] ELSE @]

updated_item(existing_item, item_update) ==
    [existing_item EXCEPT
        !.name = IF "name" \in DOMAIN item_update THEN item_update["name"] ELSE @,
        !.description = IF "description" \in DOMAIN item_update
                        THEN item_update["description"] ELSE @,
        !.price = IF "price" \in DOMAIN item_update THEN item_update["price"] ELSE @]

Remove(storage, item_id) == [k \in DOMAIN storage \ {item_id} |-> storage[k]]

-----------------------------------------------------------------------------
(* Inputs *)

Opt(field, values) == {<<>>} \cup {field :> v : v \in values}

\* Process environments of the application runs.
Environs ==
    {e @@ d @@ o : e \in Opt("ENVIRONMENT", {"production", "test"}),
                   d \in Opt("DEBUG", {"true"}),
                   o \in Opt("ENABLE_OCR", {"true"})}

FlagKwargs(pg, mg, ocr, st) ==
    ("ENABLE_DB_POSTGRES" :> pg) @@ ("ENABLE_DB_MONGO" :> mg)
    @@ ("ENABLE_OCR" :> ocr) @@ ("ENABLE_STORAGE" :> st)

\* Keyword arguments of the Settings a scenario passes to create_app: every
\* combination of the four feature flags with either storage type, and every
\* identity (the fixture of tests/conftest.py passes ENVIRONMENT="test",
\* DEBUG=True) with the OCR flag on or off.
AppKwargs ==
    {FlagKwargs(pg, mg, ocr, st) @@ ("STORAGE_TYPE" :> ty) :
        pg \in BOOLEAN, mg \in BOOLEAN, ocr \in BOOLEAN, st \in BOOLEAN,
        ty \in {"local", "s3"}}
    \cup
    {("ENVIRONMENT" :> e) @@ ("DEBUG" :> d) @@ ("APP_VERSION" :> v)
     @@ FlagKwargs(FALSE, FALSE, ocr, FALSE) :
        e \in {"development", "production", "test"}, d \in BOOLEAN,
        v \in {"1.0.0", "3.0.0"}, ocr \in BOOLEAN}

ItemCreates == {[name |-> "a", description |-> None, price |-> 1]}

ItemUpdates == {<<>>, "name" :> "b"}

ItemIds == 1..MaxItems

Timestamps == {"2024-01-01T00:00:00"}

-----------------------------------------------------------------------------
(* The process: import of app.main, a scenario's create_app, the life of    *)
(* the served application and its requests                                  *)

\* The process before anything of the application is imported.
Boot ==
    /\ phase = "boot"
    /\ built = NoCall
    /\ settings = NoneObj
    /\ app = NoApp
    /\ settings_cache = NoneObj
    /\ response = NoResponse
    /\ gate = NoCall
    /\ _items_storage = <<>>
    /\ _next_id = 1
    /\ _postgres_pool = None
    /\ _mongo_client = None
    /\ _mongo_db = None
    /\ _storage_initialized = FALSE
    /\ lifecycle = NoLifecycle
    /\ call = NoCall
    /\ fs = EmptyFs

Init ==
    /\ environ \in Environs
    /\ Boot

services == <<_postgres_pool, _mongo_client, _mongo_db, _storage_initialized>>

items == <<_items_storage, _next_id>>

\* Importing app.main runs the module-level app = create_app(); a failing
\* Settings() fails the import.
ImportMain ==
    /\ phase = "boot"
    /\ LET made == create_app(NoneObj, environ) IN
       IF made.ok
       THEN /\ phase' = "imported"
            /\ settings' = SettingsObj(made.settings)
            /\ app' = made.app
       ELSE /\ phase' = "import_failed"
            /\ UNCHANGED <<settings, app>>
    /\ UNCHANGED <<lifecycle, call, fs, environ, built, settings_cache, response, gate, items, services>>

\* Settings(**kwargs)
Construct(kwargs) ==
    /\ phase \in {"boot", "imported"}
    /\ built' = [fn |-> "Settings", kwargs |-> kwargs, res |-> BuildSettings(kwargs, environ)]
    /\ UNCHANGED <<lifecycle, call, fs, environ, phase, settings, app, settings_cache, response, gate,
                   items, services>>

\* create_app(test_settings): the application a scenario serves; the
\* Settings object it was given stays shared with the caller.
CreateApp ==
    /\ phase = "imported"
    /\ built.fn = "Settings"
    /\ built.res.ok
    /\ LET made == create_app(SettingsObj(built.res.value), environ) IN
       /\ settings' = SettingsObj(made.settings)
       /\ app' = made.app
    /\ phase' = "created"
    /\ UNCHANGED <<lifecycle, call, fs, environ, built, settings_cache, response, gate, items, services>>

\* The start-up event: the registered hooks run in order; a hook that raises
\* ends the start-up and the application serves nothing.
Startup ==
    /\ phase \in {"imported", "created"}
    /\ LET s0 == settings.val
           s1 == IF Has(app.on_startup, "startup_postgres") THEN init_postgres_db(s0) ELSE s0
           s2 == IF Has(app.on_startup, "startup_mongo") THEN init_mongo_db(s1) ELSE s1
           st == IF Has(app.on_startup, "startup_storage")
                 THEN init_storage_service(s2, fs) ELSE [ok |-> TRUE, fs |-> fs]
       IN /\ settings' = SettingsObj(s2)
          /\ built' = IF phase = "created" THEN [built EXCEPT !.res.value = s2] ELSE built
          /\ _storage_initialized' =
                IF Has(app.on_startup, "startup_storage") /\ st.ok
                THEN TRUE ELSE _storage_initialized
          /\ fs' = st.fs
          /\ lifecycle' =
                [c \in Capabilities |->
                    IF c = "postgres" /\ Has(app.on_startup, "startup_postgres") THEN "init"
                    ELSE IF c = "mongo" /\ Has(app.on_startup, "startup_mongo") THEN "init"
                    ELSE IF c = "storage" /\ Has(app.on_startup, "startup_storage")
                    THEN (IF st.ok THEN "init" ELSE "init_failed")
                    ELSE lifecycle[c]]
          /\ phase' = IF st.ok THEN "running" ELSE "startup_failed"
    /\ UNCHANGED <<call, environ, app, settings_cache, response, gate, items,
                   _postgres_pool, _mongo_client, _mongo_db>>

\* The shut-down event: close_postgres_db and close_mongo_db.  No response is
\* outstanding once the application has stopped.
Shutdown ==
    /\ phase = "running"
    /\ _postgres_pool' =
          IF Has(app.on_shutdown, "shutdown_postgres")
          THEN close_postgres_db(_postgres_pool).pool ELSE _postgres_pool
    /\ _mongo_client' =
          IF Has(app.on_shutdown, "shutdown_mongo")
          THEN close_mongo_db(_mongo_client, _mongo_db).client ELSE _mongo_client
    /\ _mongo_db' =
          IF Has(app.on_shutdown, "shutdown_mongo")
          THEN close_mongo_db(_mongo_client, _mongo_db).db ELSE _mongo_db
    /\ lifecycle' =
          [c \in Capabilities |->
              IF c = "postgres" /\ Has(app.on_shutdown, "shutdown_postgres") THEN "close"
              ELSE IF c = "mongo" /\ Has(app.on_shutdown, "shutdown_mongo") THEN "close"
              ELSE lifecycle[c]]
    /\ phase' = "stopped"
    /\ response' = NoResponse
    /\ UNCHANGED <<call, fs, environ, built, settings, app, settings_cache, gate,
                   items, _storage_initialized>>

NotFound(method, path) == Response(method, path, HTTP_404_NOT_FOUND, NotFoundBody)

\* GET {prefix}/health
Health ==
    /\ phase = "running"
    /\ response' = IF IsMounted("GET", "/health") THEN health_check(environ)
                   ELSE NotFound("GET", "/health")
    /\ UNCHANGED <<lifecycle, call, fs, environ, phase, built, settings, app, settings_cache, gate,
                   items, services>>

\* GET of a path no router declares
MissingRoute ==
    /\ phase = "running"
    /\ response' = NotFound("GET", "/missing")
    /\ UNCHANGED <<lifecycle, call, fs, environ, phase, built, settings, app, settings_cache, gate,
                   items, services>>

\* GET {prefix}/ocr/status
OcrStatus ==
    /\ phase = "running"
    /\ LET dep == get_settings(settings_cache, environ) IN
       IF IsMounted("GET", "/ocr/status")
       THEN /\ response' = ocr_status(dep.res)
            /\ settings_cache' = dep.cache
       ELSE /\ response' = NotFound("GET", "/ocr/status")
            /\ UNCHANGED settings_cache
    /\ UNCHANGED <<lifecycle, call, fs, environ, phase, built, settings, app, gate, items, services>>

\* POST {prefix}/ocr/process
ProcessOcr(has_file) ==
    /\ phase = "running"
    /\ LET dep == get_settings(settings_cache, environ) IN
       IF IsMounted("POST", "/ocr/process")
       THEN /\ response' = process_ocr(dep.res, has_file)
            /\ settings_cache' = dep.cache
       ELSE /\ response' = NotFound("POST", "/ocr/process")
            /\ UNCHANGED settings_cache
    /\ UNCHANGED <<lifecycle, call, fs, environ, phase, built, settings, app, gate, items, services>>

\* GET {prefix}/items
ListItems ==
    /\ phase = "running"
    /\ LET dep == get_settings(settings_cache, environ) IN
       IF IsMounted("GET", "/items")
       THEN /\ response' = IF dep.res.raised THEN InternalServerError("GET", "/items")
                           ELSE list_items(_items_storage)
            /\ settings_cache' = dep.cache
       ELSE /\ response' = NotFound("GET", "/items")
            /\ UNCHANGED settings_cache
    /\ UNCHANGED <<lifecycle, call, fs, environ, phase, built, settings, app, gate, items, services>>

\* GET {prefix}/items/{item_id}
GetItem(item_id) ==
    /\ phase = "running"
    /\ LET dep == get_settings(settings_cache, environ) IN
       IF IsMounted("GET", "/items/{item_id}")
       THEN /\ response' = IF dep.res.raised
                           THEN InternalServerError("GET", "/items/{item_id}")
                           ELSE get_item(_items_storage, item_id)
            /\ settings_cache' = dep.cache
       ELSE /\ response' = NotFound("GET", "/items/{item_id}")
            /\ UNCHANGED settings_cache
    /\ UNCHANGED <<lifecycle, call, fs, environ, phase, built, settings, app, gate, items, services>>

\* POST {prefix}/items
CreateItem(item, now) ==
    /\ phase = "running"
    /\ _next_id <= MaxItems
    /\ LET dep == get_settings(settings_cache, environ) IN
       IF IsMounted("POST", "/items") /\ ~dep.res.raised
       THEN /\ _items_storage' = create_item(_items_storage, _next_id, item, now).storage
            /\ _next_id' = create_item(_items_storage, _next_id, item, now).next_id
            /\ response' = Response("POST", "/items", HTTP_201_CREATED,
                                    [kind |-> "item",
                                     item |-> create_item(_items_storage, _next_id,
                                                          item, now).item])
            /\ settings_cache' = dep.cache
       ELSE /\ response' = IF IsMounted("POST", "/items")
                           THEN InternalServerError("POST", "/items")
                           ELSE NotFound("POST", "/items")
            /\ UNCHANGED <<items, settings_cache>>
    /\ UNCHANGED <<lifecycle, call, fs, environ, phase, built, settings, app, gate, services>>

\* PUT {prefix}/items/{item_id}
UpdateItem(item_id, item_update) ==
    /\ phase = "running"
    /\ LET dep == get_settings(settings_cache, environ) IN
       IF IsMounted("PUT", "/items/{item_id}") /\ ~dep.res.raised
       THEN /\ settings_cache' = dep.cache
            /\ IF item_id \notin DOMAIN _items_storage
               THEN /\ response' = Response("PUT", "/items/{item_id}",
                                            ItemNotFound.status_code,
                                            DetailBody(ItemNotFound.detail))
                    /\ UNCHANGED _items_storage
               ELSE /\ _items_storage' =
                          [_items_storage EXCEPT
                              ![item_id] = updated_item(_items_storage[item_id], item_update)]
                    /\ response' = Response("PUT", "/items/{item_id}", 200,
                          [kind |-> "item",
                           item |-> updated_item(_items_storage[item_id], item_update)])
       ELSE /\ response' = IF IsMounted("PUT", "/items/{item_id}")
                           THEN InternalServerError("PUT", "/items/{item_id}")
                           ELSE NotFound("PUT", "/items/{item_id}")
            /\ UNCHANGED <<_items_storage, settings_cache>>
    /\ UNCHANGED <<lifecycle, call, fs, environ, phase, built, settings, app, gate, _next_id, services>>

\* DELETE {prefix}/items/{item_id}
DeleteItem(item_id) ==
    /\ phase = "running"
    /\ LET dep == get_settings(settings_cache, environ) IN
       IF IsMounted("DELETE", "/items/{item_id}") /\ ~dep.res.raised
       THEN /\ settings_cache' = dep.cache
            /\ IF item_id \notin DOMAIN _items_storage
               THEN /\ response' = Response("DELETE", "/items/{item_id}",
                                            ItemNotFound.status_code,
                                            DetailBody(ItemNotFound.detail))
                    /\ UNCHANGED _items_storage
               ELSE /\ _items_storage' = Remove(_items_storage, item_id)
                    /\ response' = Response("DELETE", "/items/{item_id}",
                                            HTTP_204_NO_CONTENT, [kind |-> "empty"])
       ELSE /\ response' = IF IsMounted("DELETE", "/items/{item_id}")
                           THEN InternalServerError("DELETE", "/items/{item_id}")
                           ELSE NotFound("DELETE", "/items/{item_id}")
            /\ UNCHANGED <<_items_storage, settings_cache>>
    /\ UNCHANGED <<lifecycle, call, fs, environ, phase, built, settings, app, gate, _next_id, services>>

Next ==
    \/ ImportMain
    \/ \E kwargs \in AppKwargs : Construct(kwargs)
    \/ CreateApp
    \/ Startup
    \/ Shutdown
    \/ Health
    \/ MissingRoute
    \/ OcrStatus
    \/ \E has_file \in BOOLEAN : ProcessOcr(has_file)
    \/ ListItems
    \/ \E item_id \in ItemIds : GetItem(item_id)
    \/ \E item \in ItemCreates, now \in Timestamps : CreateItem(item, now)
    \/ \E item_id \in ItemIds, item_update \in ItemUpdates : UpdateItem(item_id, item_update)
    \/ \E item_id \in ItemIds : DeleteItem(item_id)

Spec == Init /\ [][Next]_vars

-----------------------------------------------------------------------------
(* Settings construction on its own: every environment tag and DEBUG value,  *)
(* from the environment and from keyword arguments                           *)

Tags == {"development", "staging", "production", "test", "prod", "PRODUCTION", ""}

SettingsEnvirons ==
    {e @@ d : e \in Opt("ENVIRONMENT", Tags), d \in Opt("DEBUG", {"true", "false"})}

SettingsKwargs ==
    {e @@ d : e \in Opt("ENVIRONMENT", Tags), d \in Opt("DEBUG", BOOLEAN)}

InitSettings ==
    /\ environ \in SettingsEnvirons
    /\ Boot

\* One construction per behaviour: Settings(**kwargs) is a function of its
\* keyword arguments and the environment.
NextSettings == built = NoCall /\ \E kwargs \in SettingsKwargs : Construct(kwargs)

SpecSettings == InitSettings /\ [][NextSettings]_vars

-----------------------------------------------------------------------------
(* CORS_ORIGINS normalisation: Settings(CORS_ORIGINS=v) for every string of  *)
(* at most MaxLen characters and for some lists                              *)

Chars == {"a", "b", " ", ","}

CorsStrings == UNION {[1..n -> Chars] : n \in 0..MaxLen}

CorsLists == {<<>>, <<<<"a">>>>, <<<<"a">>, <<"b">>>>, <<<<" ", "a">>, <<>>>>}

CorsInputs ==
    {[type |-> "str", val |-> v] : v \in CorsStrings}
    \cup {[type |-> "list", val |-> v] : v \in CorsLists}

InitCors ==
    /\ environ = <<>>
    /\ Boot

NextCors == built = NoCall /\ \E v \in CorsInputs : Construct("CORS_ORIGINS" :> v)

SpecCors == InitCors /\ [][NextCors]_vars

-----------------------------------------------------------------------------
(* The feature gate on its own: feature_guard and the require_feature        *)
(* wrapper called with any settings and any flag name                        *)

\* Flag names a caller may pass: the four flags, names that are no attribute
\* of Settings, and attributes that are no flag.
GateNames == {"ENABLE_OCR", "ENABLE_STORAGE", "ENABLE_DB_POSTGRES", "ENABLE_DB_MONGO",
              "ENABLE_OCRR", "ocr", "APP_NAME", "AWS_S3_BUCKET", "is_production"}

GateSettings ==
    {BuildSettings(FlagKwargs(pg, mg, ocr, st) @@ ("ENVIRONMENT" :> e)
                   @@ ("AWS_S3_BUCKET" :> b), <<>>).value :
        pg \in BOOLEAN, mg \in BOOLEAN, ocr \in BOOLEAN, st \in BOOLEAN,
        e \in {"development", "production"}, b \in {None, "bucket"}}

WrapperSettings ==
    {BuildSettings(FlagKwargs(FALSE, FALSE, ocr, st), <<>>).value :
        ocr \in BOOLEAN, st \in BOOLEAN}

WrapperArgs ==
    {<<>>}
    \cup {<<SettingsObj(s)>> : s \in WrapperSettings}
    \cup {<<[type |-> "Request"], SettingsObj(s)>> : s \in WrapperSettings}

WrapperKwargs ==
    {<<>>, "settings" :> NoneObj}
    \cup {"settings" :> SettingsObj(s) : s \in WrapperSettings}

FeatureGuardCall(s, feature_flag) ==
    /\ gate' = [fn |-> "feature_guard", settings |-> s, feature_flag |-> feature_flag,
                res |-> feature_guard(s, feature_flag)]
    /\ UNCHANGED <<lifecycle, call, fs, environ, phase, built, settings, app, settings_cache, response,
                   items, services>>

RequireFeatureCall(feature_flag, args, kwargs) ==
    /\ gate' = [fn |-> "require_feature", args |-> args, kwargs |-> kwargs,
                feature_flag |-> feature_flag,
                res |-> require_feature(feature_flag, args, kwargs, environ)]
    /\ UNCHANGED <<lifecycle, call, fs, environ, phase, built, settings, app, settings_cache, response,
                   items, services>>

InitGate ==
    /\ environ \in Environs
    /\ Boot

\* One gate call per behaviour: the gate keeps no state between calls.
NextGate ==
    \/ /\ gate = NoCall
       /\ \E s \in GateSettings, feature_flag \in GateNames :
             FeatureGuardCall(s, feature_flag)
    \/ /\ gate = NoCall
       /\ \E feature_flag \in GateNames, args \in WrapperArgs, kwargs \in WrapperKwargs :
             RequireFeatureCall(feature_flag, args, kwargs)

SpecGate == InitGate /\ [][NextGate]_vars

-----------------------------------------------------------------------------
(* Properties *)

OtherFlags == {"ENABLE_DB_POSTGRES", "ENABLE_DB_MONGO", "ENABLE_STORAGE"}

Denied404(res, feature_flag) ==
    /\ res.raised
    /\ res.exc = "HTTPException"
    /\ res.status_code = 404
    /\ res.detail = NotEnabledDetail(feature_flag)

\* The configuration the require_feature wrapper decides on: the keyword
\* argument "settings" when it is a Settings, else (when no such keyword was
\* passed) the first Settings among the positional arguments, else Settings()
\* built from the environment.
WrapperConfigs ==
    IF "settings" \in DOMAIN gate.kwargs /\ gate.kwargs["settings"].type = "Settings"
    THEN {gate.kwargs["settings"].val}
    ELSE IF "settings" \notin DOMAIN gate.kwargs
            /\ \E i \in 1..Len(gate.args) : gate.args[i].type = "Settings"
    THEN {gate.args[i].val : i \in {j \in 1..Len(gate.args) :
              gate.args[j].type = "Settings"
              /\ \A k \in 1..(j - 1) : gate.args[k].type # "Settings"}}
    ELSE {BuildSettings(<<>>, environ).value : x \in {y \in {1} : BuildSettings(<<>>, environ).ok}}

\* C1: for every configuration, whatever its other feature flags, the gate
\* called for the OCR flag (feature_guard, and the require_feature wrapper on
\* the configuration it is given) denies with the 404 "not enabled" error
\* exactly when the configuration's ENABLE_OCR is false and lets the call
\* through exactly when it is true.
C1_OcrGateFollowsOcrFlagOnly ==
    /\ (gate.fn = "feature_guard" /\ gate.feature_flag = "ENABLE_OCR") =>
          IF gate.settings.ENABLE_OCR
          THEN ~gate.res.raised
          ELSE Denied404(gate.res, "ENABLE_OCR")
    /\ (gate.fn = "require_feature" /\ gate.feature_flag = "ENABLE_OCR") =>
          \A s \in WrapperConfigs :
              IF s.ENABLE_OCR
              THEN ~gate.res.raised /\ gate.res.value = "func"
              ELSE Denied404(gate.res, "ENABLE_OCR")

\* The OCR gate denies a configuration in which every other flag is on.
C1_Witness ==
    /\ gate.fn = "feature_guard"
    /\ gate.feature_flag = "ENABLE_OCR"
    /\ ~gate.settings.ENABLE_OCR
    /\ \A f \in OtherFlags : gate.settings[f]
    /\ Denied404(gate.res, "ENABLE_OCR")

-----------------------------------------------------------------------------
(* The OCR endpoints *)

OcrPaths == {"/ocr/process", "/ocr/status"}

\* str.lower() on the words the responses use.
Lower(word) ==
    CASE word = "Not" -> "not"
      [] word = "Found" -> "found"
      [] word = "Feature" -> "feature"
      [] word = "Item" -> "item"
      [] OTHER -> word

\* "not enabled" in detail.lower()
SaysNotEnabled(detail) ==
    \E i \in 1..(Len(detail) - 1) :
        Lower(detail[i]) = "not" /\ Lower(detail[i + 1]) = "enabled"

MentionsOcr(detail) == \E i \in 1..Len(detail) : detail[i] \in {"ocr", "ENABLE_OCR"}

\* An OCR endpoint answered a request that carried what the endpoint requires.
OcrAnswered ==
    /\ phase = "running"
    /\ response.status_code # 0
    /\ response.path \in OcrPaths
    /\ response.body.kind # "validation"

\* C2: served by an application created with ENABLE_OCR false, either OCR
\* endpoint answers 404 with a detail that names the capability and says
\* "not enabled".
C2_DisabledOcrSaysNotEnabled ==
    (OcrAnswered /\ ~settings.val.ENABLE_OCR) =>
        /\ response.status_code = 404
        /\ response.body.kind = "detail"
        /\ SaysNotEnabled(response.body.detail)
        /\ MentionsOcr(response.body.detail)

\* C3: served by an application created with ENABLE_OCR true, GET
\* {prefix}/ocr/status answers 200 with enabled true, a non-empty provider
\* and status "ready".
C3_EnabledOcrStatusIsReady ==
    (OcrAnswered /\ response.path = "/ocr/status" /\ settings.val.ENABLE_OCR) =>
        /\ response.status_code = 200
        /\ response.body.kind = "ocr_status"
        /\ response.body.enabled = TRUE
        /\ ~Falsy(response.body.provider)
        /\ response.body.status = "ready"

\* The OCR capability is disabled for the served application: it was created
\* with the flag off, or the configuration the gate reads has the flag off.
OcrDisabled ==
    \/ ~settings.val.ENABLE_OCR
    \/ settings_cache.type = "Settings" /\ ~settings_cache.val.ENABLE_OCR

\* C4: while OCR is disabled, the status code (404, not 403) and the body of
\* an OCR endpoint's answer are those of the answer for a path no route
\* matches.
C4_DisabledOcrAnswersAsMissingRoute ==
    (OcrAnswered /\ OcrDisabled) =>
        /\ response.status_code = NotFound("GET", "/missing").status_code
        /\ response.body = NotFound("GET", "/missing").body

\* C5: the gate called with a flag name that is none of the four feature
\* flags fails fast: it raises something other than the 404 denial and never
\* lets the call through.
C5_UnknownFlagFailsFast ==
    (gate.fn \in {"feature_guard", "require_feature"} /\ gate.feature_flag \notin FeatureFlags) =>
        /\ gate.res.raised
        /\ gate.res.exc # "HTTPException"

-----------------------------------------------------------------------------
(* Settings construction *)

Constructed == built.fn = "Settings"

TagGiven == FieldSource(built.kwargs, environ, "ENVIRONMENT")

DebugGiven == FieldSource(built.kwargs, environ, "DEBUG")

ProductionDebug(s) == s.ENVIRONMENT = "production" /\ s.DEBUG

\* C7: constructing Settings with ENVIRONMENT=production fails when DEBUG is
\* true and succeeds when it is false; no Settings in use (the one the served
\* application was created with, the one get_settings caches, the one last
\* constructed) and no application has production together with debug.
C7_NoDebugInProduction ==
    /\ (Constructed /\ TagGiven = "production") =>
          IF DebugGiven
          THEN ~built.res.ok /\ "DEBUG" \in built.res.fields
          ELSE built.res.ok /\ ~built.res.value.DEBUG
    /\ (Constructed /\ built.res.ok) => ~ProductionDebug(built.res.value)
    /\ settings.type = "Settings" =>
          /\ ~ProductionDebug(settings.val)
          /\ ~(app.debug /\ app.docs_url = None)
    /\ settings_cache.type = "Settings" => ~ProductionDebug(settings_cache.val)

\* DEBUG=True is refused for a production environment.
C7_Witness ==
    /\ Constructed
    /\ TagGiven = "production"
    /\ DebugGiven
    /\ ~built.res.ok
    /\ phase = "imported"

-----------------------------------------------------------------------------
(* CORS_ORIGINS *)

RECURSIVE DropEmpty(_)
DropEmpty(seq) ==
    IF seq = <<>> THEN <<>>
    ELSE IF Head(seq) = <<>> THEN DropEmpty(Tail(seq))
    ELSE <<Head(seq)>> \o DropEmpty(Tail(seq))

\* C8: a CORS_ORIGINS string becomes its comma-separated pieces in order,
\* each trimmed, the empty ones dropped; a list is passed through unchanged.
C8_CorsOriginsNormalized ==
    (Constructed /\ "CORS_ORIGINS" \in DOMAIN built.kwargs /\ built.res.ok) =>
        LET v == built.kwargs["CORS_ORIGINS"]
            out == built.res.value.CORS_ORIGINS
            pieces == Split(v.val, ",")
        IN  IF v.type = "str"
            THEN /\ out.val = DropEmpty([i \in 1..Len(pieces) |-> Strip(pieces[i])])
                 /\ \A i \in 1..Len(out.val) : out.val[i] # <<>>
            ELSE out = v

-----------------------------------------------------------------------------
(* The always-mounted routers *)

\* C9: GET {prefix}/health answers 200 with status "ok" and the version and
\* environment of the Settings the served application was created with.
C9_HealthReportsAppSettings ==
    (phase = "running" /\ response.status_code # 0 /\ response.path = "/health") =>
        /\ response.status_code = 200
        /\ response.body.kind = "health"
        /\ response.body.status = "ok"
        /\ response.body.version = settings.val.APP_VERSION
        /\ response.body.environment = settings.val.ENVIRONMENT

AlwaysPaths == {"/health", "/items", "/items/{item_id}"}

\* C10: whatever the four feature flags, every application has the health
\* route and the five item routes mounted, none of them is answered as a
\* missing route or with a "not enabled" denial, and GET {prefix}/items
\* answers 200 with a list.
C10_HealthAndItemsAlwaysAvailable ==
    /\ settings.type = "Settings" =>
          include_router(health_router \cup items_router, "/api/v1") \subseteq app.routes
    /\ (response.status_code # 0 /\ response.path \in AlwaysPaths) =>
          /\ response.body # NotFoundBody
          /\ response.body.kind = "detail" => ~SaysNotEnabled(response.body.detail)
          /\ (response.method = "GET" /\ response.path = "/items") =>
                /\ response.status_code = 200
                /\ response.body.kind = "items"

\* The item list is served with every optional feature enabled.
C10_Witness ==
    /\ phase = "running"
    /\ \A f \in FeatureFlags : settings.val[f]
    /\ response.status_code = 200
    /\ response.method = "GET"
    /\ response.path = "/items"
    /\ response.body.kind = "items"
    /\ Len(response.body.items) > 0

-----------------------------------------------------------------------------
(* Start-up and shut-down of the backing services *)

\* The flag of create_app's configuration that governs a capability.
FlagOf(c) ==
    IF c = "postgres" THEN "ENABLE_DB_POSTGRES"
    ELSE IF c = "mongo" THEN "ENABLE_DB_MONGO"
    ELSE "ENABLE_STORAGE"

Started == phase \in {"running", "startup_failed", "stopped"}

\* C13: for postgres, mongo and storage, the service's init has run at
\* start-up exactly when its flag is true in the configuration create_app
\* was given, and once the application has shut down every service that was
\* initialised at start-up has had its close call; nothing runs for a
\* capability whose flag is false.
C13_InitAtStartupCloseAtShutdown ==
    /\ Started =>
          \A c \in Capabilities : (lifecycle[c] # "none") <=> settings.val[FlagOf(c)]
    /\ phase = "stopped" =>
          \A c \in Capabilities : settings.val[FlagOf(c)] => lifecycle[c] = "close"

-----------------------------------------------------------------------------
(* The database connectors called directly: init, close and the accessor of *)
(* either connector in any order, on a Settings object the caller built,    *)
(* next to the other operations that are handed the same object             *)

DbKwargs ==
    {u @@ p : u \in Opt("POSTGRES_URL", {"", "postgresql://elsewhere/db"}),
              p \in Opt("POSTGRES_PASSWORD", {"secret"})}
    \cup
    {u @@ n @@ p : u \in Opt("MONGO_URL", {"mongodb://elsewhere/db"}),
                   n \in Opt("MONGO_USER", {"user"}),
                   p \in Opt("MONGO_PASSWORD", {"secret"})}
    \cup
    {FlagKwargs(FALSE, FALSE, TRUE, TRUE)}

\* A process that has built Settings(**kwargs) and nothing else.
Built(kwargs) ==
    /\ built = [fn |-> "Settings", kwargs |-> kwargs, res |-> BuildSettings(kwargs, environ)]
    /\ settings = SettingsObj(built.res.value)
    /\ phase = "boot"
    /\ app = NoApp
    /\ settings_cache = NoneObj
    /\ response = NoResponse
    /\ gate = NoCall
    /\ _items_storage = <<>>
    /\ _next_id = 1
    /\ _postgres_pool = None
    /\ _mongo_client = None
    /\ _mongo_db = None
    /\ _storage_initialized = FALSE
    /\ lifecycle = NoLifecycle
    /\ call = NoCall
    /\ fs = EmptyFs

InitDb ==
    /\ environ = <<>>
    /\ \E kwargs \in DbKwargs : Built(kwargs)

\* await init_postgres_db(settings)
InitPostgresDb ==
    /\ settings' = SettingsObj(init_postgres_db(settings.val))
    /\ lifecycle' = [lifecycle EXCEPT !["postgres"] = "init"]
    /\ call' = [fn |-> "init_postgres_db", res |-> Return(None)]
    /\ UNCHANGED <<fs, environ, phase, built, app, settings_cache, response, gate,
                   items, services>>

\* await close_postgres_db()
ClosePostgresDb ==
    /\ LET closed == close_postgres_db(_postgres_pool) IN
       /\ _postgres_pool' = closed.pool
       /\ lifecycle' = IF closed.raised THEN lifecycle
                       ELSE [lifecycle EXCEPT !["postgres"] = "close"]
       /\ call' = [fn |-> "close_postgres_db",
                   res |-> IF closed.raised THEN Raise("Exception") ELSE Return(None)]
    /\ UNCHANGED <<fs, environ, phase, built, settings, app, settings_cache, response,
                   gate, items, _mongo_client, _mongo_db, _storage_initialized>>

\* await get_postgres_pool()
GetPostgresPool ==
    /\ call' = [fn |-> "get_postgres_pool", res |-> get_postgres_pool(_postgres_pool)]
    /\ UNCHANGED <<lifecycle, fs, environ, phase, built, settings, app, settings_cache,
                   response, gate, items, services>>

\* await init_mongo_db(settings)
InitMongoDb ==
    /\ settings' = SettingsObj(init_mongo_db(settings.val))
    /\ lifecycle' = [lifecycle EXCEPT !["mongo"] = "init"]
    /\ call' = [fn |-> "init_mongo_db", res |-> Return(None)]
    /\ UNCHANGED <<fs, environ, phase, built, app, settings_cache, response, gate,
                   items, services>>

\* await close_mongo_db()
CloseMongoDb ==
    /\ LET closed == close_mongo_db(_mongo_client, _mongo_db) IN
       /\ _mongo_client' = closed.client
       /\ _mongo_db' = closed.db
       /\ lifecycle' = IF closed.raised THEN lifecycle
                       ELSE [lifecycle EXCEPT !["mongo"] = "close"]
       /\ call' = [fn |-> "close_mongo_db",
                   res |-> IF closed.raised THEN Raise("Exception") ELSE Return(None)]
    /\ UNCHANGED <<fs, environ, phase, built, settings, app, settings_cache, response,
                   gate, items, _postgres_pool, _storage_initialized>>

\* await get_mongo_db()
GetMongoDb ==
    /\ call' = [fn |-> "get_mongo_db", res |-> get_mongo_db(_mongo_db)]
    /\ UNCHANGED <<lifecycle, fs, environ, phase, built, settings, app, settings_cache,
                   response, gate, items, services>>

\* await process_image_ocr(image_data, settings)
ProcessImageOcr ==
    /\ call' = [fn |-> "process_image_ocr", settings |-> settings.val,
                res |-> process_image_ocr(settings.val)]
    /\ UNCHANGED <<lifecycle, fs, environ, phase, built, settings, app, settings_cache,
                   response, gate, items, services>>

\* await init_storage_service(settings)
InitStorageService ==
    /\ LET done == init_storage_service(settings.val, fs) IN
       /\ fs' = done.fs
       /\ _storage_initialized' = IF done.ok THEN TRUE ELSE _storage_initialized
       /\ lifecycle' = [lifecycle EXCEPT !["storage"] = IF done.ok THEN "init"
                                                        ELSE "init_failed"]
       /\ call' = [fn |-> "init_storage_service", settings |-> settings.val,
                   res |-> IF done.ok THEN Return(None)
                           ELSE [raised |-> TRUE, exc |-> done.exc,
                                 message |-> done.error]]
    /\ UNCHANGED <<environ, phase, built, settings, app, settings_cache, response, gate,
                   items, _postgres_pool, _mongo_client, _mongo_db>>

\* await save_file(file_data, file_path, settings)
SaveFile(file_data, file_path) ==
    /\ LET saved == save_file(file_data, file_path, settings.val, fs) IN
       /\ fs' = saved.fs
       /\ call' = [fn |-> "save_file", settings |-> settings.val,
                   file_data |-> file_data, file_path |-> file_path,
                   res |-> IF saved.ok THEN Return(saved.value)
                           ELSE [raised |-> TRUE, exc |-> saved.exc,
                                 message |-> saved.error]]
    /\ UNCHANGED <<lifecycle, environ, phase, built, settings, app, settings_cache,
                   response, gate, items, services>>

\* The handlers of routers/ocr.py called with the caller's Settings as their
\* dependency.
OcrHandler(has_file) ==
    /\ response' \in {ocr_status(Return(settings.val)),
                      process_ocr(Return(settings.val), has_file)}
    /\ UNCHANGED <<lifecycle, call, fs, environ, phase, built, settings, app,
                   settings_cache, gate, items, services>>

NextDb ==
    \/ InitPostgresDb
    \/ ClosePostgresDb
    \/ GetPostgresPool
    \/ InitMongoDb
    \/ CloseMongoDb
    \/ GetMongoDb
    \/ FeatureGuardCall(settings.val, "ENABLE_OCR")
    \/ OcrHandler(TRUE)
    \/ ProcessImageOcr
    \/ InitStorageService
    \/ SaveFile(<<1>>, <<"f">>)

SpecDb == InitDb /\ [][NextDb]_vars

-----------------------------------------------------------------------------
(* Properties of the database connectors *)

SaysNotInitialized(message) ==
    \E i \in 1..(Len(message) - 1) :
        Lower(message[i]) = "not" /\ Lower(message[i + 1]) = "initialized"

\* C11: the accessor of either connector succeeds exactly when the last
\* lifecycle call of that connector was a successful init (an init with no
\* close since); otherwise it fails with a "not initialized" error, and a
\* successful accessor never returns None.
C11_AccessorFollowsLifecycle ==
    /\ call.fn = "get_postgres_pool" =>
          /\ ~call.res.raised <=> lifecycle["postgres"] = "init"
          /\ call.res.raised => SaysNotInitialized(call.res.message)
          /\ ~call.res.raised => call.res.value # None
    /\ call.fn = "get_mongo_db" =>
          /\ ~call.res.raised <=> lifecycle["mongo"] = "init"
          /\ call.res.raised => SaysNotInitialized(call.res.message)
          /\ ~call.res.raised => call.res.value # None

\* C12: closing a connector never raises, whatever was called before; it
\* leaves the connector uninitialised (for Mongo both the client and the
\* database handle unset, so that the accessor fails); and a close that
\* directly follows a close of the same connector changes nothing.
C12_CloseIsIdempotent ==
    [][/\ ClosePostgresDb =>
             /\ ~call'.res.raised
             /\ _postgres_pool' = None
             /\ get_postgres_pool(_postgres_pool').raised
             /\ call.fn = "close_postgres_db" =>
                   UNCHANGED <<_postgres_pool, _mongo_client, _mongo_db, settings,
                               lifecycle, _storage_initialized, fs>>
       /\ CloseMongoDb =>
             /\ ~call'.res.raised
             /\ _mongo_client' = None /\ _mongo_db' = None
             /\ get_mongo_db(_mongo_db').raised
             /\ call.fn = "close_mongo_db" =>
                   UNCHANGED <<_postgres_pool, _mongo_client, _mongo_db, settings,
                               lifecycle, _storage_initialized, fs>>]_vars

\* Either connector was initialised (its URL was composed) and then closed.
C12_Witness ==
    \/ /\ call.fn = "close_mongo_db"
       /\ lifecycle["mongo"] = "close"
       /\ "MONGO_URL" \notin DOMAIN built.kwargs
       /\ settings.val.MONGO_URL = "mongodb://localhost:27017/fastapi_db"
    \/ /\ call.fn = "close_postgres_db"
       /\ lifecycle["postgres"] = "close"
       /\ "POSTGRES_URL" \notin DOMAIN built.kwargs
       /\ settings.val.POSTGRES_URL # None

-----------------------------------------------------------------------------
(* The configuration after construction *)

UrlFields == {"POSTGRES_URL", "MONGO_URL"}

\* C20: a step changes the configuration only by init_postgres_db or
\* init_mongo_db composing that connector's URL field, and only when the
\* field was absent (None or empty): a supplied URL is never overwritten, a
\* second init leaves the URL of the first, every other field keeps its
\* value, and no other operation (gate check, handler, OCR and storage
\* dispatch, close, accessor) changes any field.
C20_ConfigurationReadOnlyButUrl ==
    [][/\ \A f \in Fields \ UrlFields : settings'.val[f] = settings.val[f]
       /\ \A f \in UrlFields : ~Falsy(settings.val[f]) => settings'.val[f] = settings.val[f]
       /\ settings'.val.POSTGRES_URL # settings.val.POSTGRES_URL =>
             /\ call'.fn = "init_postgres_db"
             /\ settings'.val.POSTGRES_URL = postgres_url(settings.val)
             /\ settings'.val.MONGO_URL = settings.val.MONGO_URL
       /\ settings'.val.MONGO_URL # settings.val.MONGO_URL =>
             /\ call'.fn = "init_mongo_db"
             /\ settings'.val.MONGO_URL = mongo_url(settings.val)
             /\ settings'.val.POSTGRES_URL = settings.val.POSTGRES_URL]_vars

\* init_postgres_db has run on a configuration whose URL was supplied, and
\* the URL is the supplied one.
C20_Witness ==
    /\ call.fn = "init_postgres_db"
    /\ "POSTGRES_URL" \in DOMAIN built.kwargs
    /\ built.kwargs["POSTGRES_URL"] = "postgresql://elsewhere/db"
    /\ settings.val.POSTGRES_URL = "postgresql://elsewhere/db"

-----------------------------------------------------------------------------
(* Provider dispatch called directly: init_storage_service, save_file and   *)
(* process_image_ocr on a Settings object with any provider selector        *)

KnownOcrProviders == {"tesseract", "google_vision", "aws_textract"}

KnownStorageTypes == {"local", "s3", "gcs"}

StorageKwargs ==
    {t @@ b : t \in Opt("STORAGE_TYPE", KnownStorageTypes \cup {"azure"}),
              b \in Opt("AWS_S3_BUCKET", {"bucket"})}
    \cup
    {("ENABLE_OCR" :> TRUE) @@ p :
        p \in Opt("OCR_PROVIDER", KnownOcrProviders \cup {"easyocr"})}

\* Relative paths below the storage root: plain, nested below one and below
\* two directories, and paths that run through one another.
FilePaths == {<<"a">>, <<"a", "b">>, <<"a", "b", "c">>, <<"d">>}

\* File contents: sequences of bytes.
FileDatas == {<<>>, <<1>>, <<2, 3>>}

InitStorage ==
    /\ environ = <<>>
    /\ \E kwargs \in StorageKwargs : Built(kwargs)

NextStorage ==
    \/ InitStorageService
    \/ \E file_data \in FileDatas, file_path \in FilePaths : SaveFile(file_data, file_path)
    \/ ProcessImageOcr
    \/ \E has_file \in BOOLEAN : OcrHandler(has_file)

SpecStorage == InitStorage /\ [][NextStorage]_vars

-----------------------------------------------------------------------------
(* Properties of the provider dispatch *)

OcrProviderOf(s) == IF Falsy(s.OCR_PROVIDER) THEN "tesseract" ELSE s.OCR_PROVIDER

StorageTypeOf(s) == IF Falsy(s.STORAGE_TYPE) THEN "local" ELSE s.STORAGE_TYPE

Names(message, word) == \E i \in 1..Len(message) : message[i] = word

\* C14: process_image_ocr returns a well-formed result labelled with the
\* selected provider exactly when the provider is one of the three known
\* ones, and init_storage_service and save_file proceed for local, s3 (with
\* its bucket configured) and gcs, where only the local file system can
\* still refuse; any other selector gives an error that names the provider,
\* and the request that met it is not answered with an internal server
\* error.
C14_ProviderDispatch ==
    /\ call.fn = "process_image_ocr" =>
          IF OcrProviderOf(call.settings) \in KnownOcrProviders
          THEN /\ call.res.ok
               /\ DOMAIN call.res.value = {"text", "confidence", "provider"}
               /\ call.res.value.provider = OcrProviderOf(call.settings)
          ELSE /\ ~call.res.ok
               /\ Names(call.res.error, OcrProviderOf(call.settings))
    /\ call.fn \in {"init_storage_service", "save_file"} =>
          IF StorageTypeOf(call.settings) \in KnownStorageTypes
          THEN (StorageTypeOf(call.settings) = "s3" => ~Falsy(call.settings.AWS_S3_BUCKET))
                  => (call.res.raised => call.res.exc = "OSError")
          ELSE /\ call.res.raised
               /\ Names(call.res.message, StorageTypeOf(call.settings))
    /\ response.status_code # 500

\* C15: with storage type s3 and no bucket configured, init_storage_service
\* and save_file both fail with an error that names the missing
\* AWS_S3_BUCKET and return nothing, and the failed init leaves the storage
\* service marked as not initialised.
C15_S3WithoutBucketFails ==
    (/\ call.fn \in {"init_storage_service", "save_file"}
     /\ StorageTypeOf(call.settings) = "s3"
     /\ Falsy(call.settings.AWS_S3_BUCKET))
    => /\ call.res.raised
       /\ Names(call.res.message, "AWS_S3_BUCKET")
       /\ call.fn = "init_storage_service" => ~_storage_initialized

-----------------------------------------------------------------------------
(* Properties of the local storage save *)

IsLocal(s) == StorageTypeOf(s) = "local"

\* Every file of the disk before other than the one at path is on the disk
\* after with the same bytes, and no other file has appeared.
OtherFilesUnchanged(before, after, path) ==
    /\ DOMAIN after.files \ {path} = DOMAIN before.files \ {path}
    /\ \A p \in DOMAIN before.files \ {path} : after.files[p] = before.files[p]

\* What a save of file_data to file_path has to leave behind: the call
\* returned the path of the file, every directory on the way to it exists and
\* no directory has gone, the file read back holds exactly file_data, and
\* every other file is as it was.
SavedAndReadable(file_data, file_path) ==
    /\ ~call'.res.raised
    /\ call'.res.value.path = full_path(settings.val, file_path)
    /\ Prefixes(dirname(call'.res.value.path)) \subseteq fs'.dirs
    /\ fs.dirs \subseteq fs'.dirs
    /\ read_file(fs', call'.res.value.path) = Ok(file_data)
    /\ OtherFilesUnchanged(fs, fs', call'.res.value.path)

\* C19 as stated: every local save, of any bytes to any relative path below
\* the storage root, creates the missing directories and leaves the file
\* readable with exactly the saved bytes (so after two saves to one path the
\* later content), other files unchanged.
C19_LocalSaveReadsBack ==
    [][\A file_data \in FileDatas, file_path \in FilePaths :
          (SaveFile(file_data, file_path) /\ IsLocal(settings.val))
             => SavedAndReadable(file_data, file_path)]_vars

\* The path is free on the disk: no directory on the way to it is a regular
\* file, and the path itself is no directory.
PathFree(disk, path) ==
    /\ \A p \in Prefixes(dirname(path)) : p \notin DOMAIN disk.files
    /\ path \notin disk.dirs

\* C19 amended: a local save to a path that is free leaves the file and its
\* directories as C19 says; a save to a path that runs through a regular
\* file, or that names a directory, raises an OSError and leaves files and
\* directories as they were.
C19_LocalSaveReadsBackWhenFree ==
    [][\A file_data \in FileDatas, file_path \in FilePaths :
          (SaveFile(file_data, file_path) /\ IsLocal(settings.val))
             => IF PathFree(fs, full_path(settings.val, file_path))
                THEN SavedAndReadable(file_data, file_path)
                ELSE /\ call'.res.raised
                     /\ call'.res.exc = "OSError"
                     /\ fs' = fs]_vars

\* A file below two directories was saved for the second time, with other
\* bytes than the first time, and holds the later bytes.
C19_Witness ==
    /\ call.fn = "save_file"
    /\ IsLocal(call.settings)
    /\ call.file_path = <<"a", "b", "c">>
    /\ call.file_data = <<2, 3>>
    /\ ~call.res.raised
    /\ {<<"./storage">>, <<"./storage", "a">>, <<"./storage", "a", "b">>} \subseteq fs.dirs
    /\ fs.files[<<"./storage", "a", "b", "c">>] = <<2, 3>>
    /\ <<"./storage", "d">> \in DOMAIN fs.files

-----------------------------------------------------------------------------
(* The items router of a running default application: any order of list,    *)
(* get, create, update and delete requests, with every choice of the fields *)
(* an update supplies.  Each handler body runs without an await, so the      *)
(* requests the server handles concurrently take effect one after another,   *)
(* in any order.                                                             *)

\* The updates a request can carry: any of name, description and price.
PartialUpdates ==
    {n @@ d @@ p : n \in Opt("name", {"b"}), d \in Opt("description", {"d"}),
                   p \in Opt("price", {2})}

\* The process after import of app.main and the start-up event, in an empty
\* environment.
InitItems ==
    /\ environ = <<>>
    /\ phase = "running"
    /\ built = NoCall
    /\ settings = SettingsObj(create_app(NoneObj, environ).settings)
    /\ app = create_app(NoneObj, environ).app
    /\ settings_cache = NoneObj
    /\ response = NoResponse
    /\ gate = NoCall
    /\ _items_storage = <<>>
    /\ _next_id = 1
    /\ _postgres_pool = None
    /\ _mongo_client = None
    /\ _mongo_db = None
    /\ _storage_initialized = FALSE
    /\ lifecycle = NoLifecycle
    /\ call = NoCall
    /\ fs = EmptyFs

NextItems ==
    \/ ListItems
    \/ \E item_id \in ItemIds : GetItem(item_id)
    \/ \E item \in ItemCreates, now \in Timestamps : CreateItem(item, now)
    \/ \E item_id \in ItemIds, item_update \in PartialUpdates :
          UpdateItem(item_id, item_update)
    \/ \E item_id \in ItemIds : DeleteItem(item_id)

SpecItems == InitItems /\ [][NextItems]_vars

-----------------------------------------------------------------------------
(* Properties of the items store *)

\* Every stored item is kept under its own id, below the next id to assign.
StoreKeyedById(storage, next_id) ==
    \A k \in DOMAIN storage : storage[k].id = k /\ k < next_id

\* C16: the store starts with next id 1; in every step the only id that can
\* enter the store is the next id, whose counter then moves up by one, so the
\* ids of successive creates are 1, 2, 3, ... in order of creation, none is
\* given twice and none is given again after a delete; the counter moves at
\* no other step; and every stored item is keyed by its own id, below the
\* counter.
C16_IdsStrictlyIncreasing ==
    /\ _next_id = 1 /\ _items_storage = <<>>
    /\ [][LET created == DOMAIN _items_storage' \ DOMAIN _items_storage IN
          /\ created \subseteq {_next_id}
          /\ created # {} => /\ _next_id' = _next_id + 1
                             /\ response'.status_code = HTTP_201_CREATED
                             /\ response'.body.item.id = _next_id
          /\ created = {} => _next_id' = _next_id
          /\ \A k \in 1..(_next_id - 1) :
                k \notin DOMAIN _items_storage => k \notin DOMAIN _items_storage'
          /\ StoreKeyedById(_items_storage', _next_id')]_vars

\* Two items were created, the first was deleted, and the second keeps id 2.
C16_Witness ==
    /\ _next_id = 3
    /\ DOMAIN _items_storage = {2}
    /\ _items_storage[2].id = 2

SaysNotFound(detail) ==
    \E i \in 1..(Len(detail) - 1) :
        Lower(detail[i]) = "not" /\ Lower(detail[i + 1]) = "found"

ItemNotFound404(r) ==
    /\ r.status_code = 404
    /\ r.body.kind = "detail"
    /\ SaysNotFound(r.body.detail)

\* C17: a get, update or delete of an id that is not in the store answers 404
\* with a "not found" message and leaves the store and the id counter as
\* they were; a get of an id in the store answers 200 with the stored item;
\* a delete of an id in the store removes it; and an id that was created and
\* is no longer in the store never comes back, so every later request for it
\* answers 404.
C17_MissingItemIs404 ==
    [][\A item_id \in ItemIds :
          /\ (GetItem(item_id) /\ item_id \notin DOMAIN _items_storage)
                => ItemNotFound404(response') /\ UNCHANGED items
          /\ (GetItem(item_id) /\ item_id \in DOMAIN _items_storage)
                => /\ response'.status_code = 200
                   /\ response'.body.item = _items_storage[item_id]
                   /\ UNCHANGED items
          /\ \A item_update \in PartialUpdates :
                (UpdateItem(item_id, item_update) /\ item_id \notin DOMAIN _items_storage)
                   => ItemNotFound404(response') /\ UNCHANGED items
          /\ (DeleteItem(item_id) /\ item_id \notin DOMAIN _items_storage)
                => ItemNotFound404(response') /\ UNCHANGED items
          /\ (DeleteItem(item_id) /\ item_id \in DOMAIN _items_storage)
                => /\ response'.status_code = HTTP_204_NO_CONTENT
                   /\ item_id \notin DOMAIN _items_storage'
          /\ (item_id < _next_id /\ item_id \notin DOMAIN _items_storage)
                => item_id \notin DOMAIN _items_storage']_vars

\* Item 1 was created and deleted, and a later get of it was answered 404.
C17_Witness ==
    /\ _next_id > 1
    /\ 1 \notin DOMAIN _items_storage
    /\ response.status_code = 404
    /\ response.method = "GET"
    /\ response.path = "/items/{item_id}"

====
